---- MODULE Spec2Model ----
(***************************************************************************)
(* Model of the Hyperliquid OHLC puller (hyperliquid_puller.py): the run   *)
(* over the assets, its fetch, save and verifier; and of the daily         *)
(* puller's time range and save (pull_daily_ohlc.py).                      *)
(*                                                                         *)
(* Instants are records [sec, ms]: whole seconds since the model's epoch   *)
(* and the millisecond within the second.  The provider's 'T' field is an  *)
(* epoch-millisecond integer, pandas keeps it at millisecond precision,    *)
(* and the CSV timestamp text '%Y-%m-%d %H:%M:%S' has second resolution.   *)
(***************************************************************************)
EXTENDS Integers, Sequences, FiniteSets, TLC

VARIABLES
    files,              \* asset -> the asset's CSV file
    available_symbols,  \* self.available_symbols (None or a set)
    now,                \* the wall clock, datetime.now()
    pc,                 \* position of the run
    idx,                \* position of update_all_assets in ASSETS
    runs,               \* number of runs started
    success_count,
    fail_count,
    rebuild_count,
    tally,              \* asset -> what the current run has counted it as
    force_full_history, \* fetch_candle_data's flag (= should_rebuild)
    start_time,         \* fetch_candle_data's start_time
    end_time,           \* fetch_candle_data's end_time
    current_start,      \* chunk loop position
    all_candles,        \* raw candles fetched so far
    windows,            \* the provider requests issued by the current fetch
    chunk_failed,       \* a provider request of the current fetch failed
    outstanding,        \* provider requests sent and not yet answered
    ever_incremental,   \* assets some run has classified incremental-update
    new_data,           \* the batch fetch_candle_data returned (or None)
    accesses,           \* asset -> the run's reads and writes of its file
    mfile,              \* merge harness: the stored series
    mbatch,             \* merge harness: the fetched batch
    mflag,              \* merge harness: replace flag / full_historical
    mvariant,           \* merge harness: which script's save is applied
    mfirst,             \* merge harness: the file after the first save
    mprev,              \* merge harness: the file before the last save
    mpc,                \* merge harness: number of saves applied
    mtally,             \* merge harness: what the run counts the asset as
    cfile,              \* classifier harness: the stored file
    cres,               \* classifier harness: result of should_rebuild_data
    cdone,              \* classifier harness: should_rebuild_data has run
    report,             \* asset -> what verify_data_integrity logged
    GITHUB_EVENT_NAME,  \* daily script: the environment variable
    FULL_HISTORICAL,    \* daily script: the environment variable
    daily_start         \* daily script: start of the requested range

vars == <<files, available_symbols, now, pc, idx, runs, success_count,
          fail_count, rebuild_count, tally, force_full_history, start_time,
          end_time, current_start, all_candles, windows, chunk_failed,
          new_data, accesses, outstanding, ever_incremental, mfile, mbatch, mflag, mvariant, mfirst, mprev,
          mpc, mtally, cfile, cres, cdone, report, GITHUB_EVENT_NAME,
          FULL_HISTORICAL, daily_start>>

runVars == <<files, available_symbols, now, pc, idx, runs, success_count,
             fail_count, rebuild_count, tally, force_full_history, start_time,
             end_time, current_start, all_candles, windows, chunk_failed,
             new_data, accesses, outstanding, ever_incremental>>

mergeVars == <<mfile, mbatch, mflag, mvariant, mfirst, mprev, mpc, mtally>>

classVars == <<cfile, cres, cdone>>

verifyVars == <<report>>

dailyVars == <<GITHUB_EVENT_NAME, FULL_HISTORICAL, daily_start>>

(***************************************************************************)
(* Program constants                                                       *)
(***************************************************************************)
HISTORICAL_DAYS == 365
chunk_days == 45
ChunkThresholdDays == 50
MinSpanDays == 250
MinLookbackDays == 300

\* The tracked assets (two of ASSETS, one of them remapped).
ASSETS == <<"BTC", "PEPE">>

AssetSet == {ASSETS[i] : i \in 1..Len(ASSETS)}

get_hyperliquid_symbol(asset) == IF asset = "PEPE" THEN "kPEPE" ELSE asset

(***************************************************************************)
(* Bounds of the model                                                     *)
(***************************************************************************)
MaxRuns == 2
MaxResp == 2

(***************************************************************************)
(* Time                                                                    *)
(***************************************************************************)
SecPerDay == 24 * 60 * 60

Ts(s, m) == [sec |-> s, ms |-> m]

TsLess(a, b) == a.sec < b.sec \/ (a.sec = b.sec /\ a.ms < b.ms)

TsLeq(a, b) == a = b \/ TsLess(a, b)

TsMin(a, b) == IF TsLess(b, a) THEN b ELSE a

\* t + timedelta(days=d)
AddDays(t, d) == [t EXCEPT !.sec = @ + d * SecPerDay]

\* (a - b).days : timedelta.days is the floor of the difference in days
TimedeltaDays(a, b) ==
    LET ds == (a.sec - b.sec) - (IF a.ms < b.ms THEN 1 ELSE 0)
    IN  IF ds >= 0 THEN ds \div SecPerDay
        ELSE -((-ds + SecPerDay - 1) \div SecPerDay)

\* strftime('%Y-%m-%d %H:%M:%S'): the text has no fraction of a second, and
\* parsing the text back gives the whole second.
FormatTimestamp(t) == [sec |-> t.sec, ms |-> 0]

(***************************************************************************)
(* Rows and sequences of rows                                              *)
(***************************************************************************)
None == [none |-> TRUE, rows |-> <<>>]

Some(rows) == [none |-> FALSE, rows |-> rows]

NoFile == [st |-> "missing", rows |-> <<>>]

FileOf(rows) == [st |-> "ok", rows |-> rows]

\* self.available_symbols = None
NoSymbols == [none |-> TRUE, syms |-> {}]

Timestamps(rows) == {rows[i].timestamp : i \in 1..Len(rows)}

\* DataFrame.drop_duplicates(subset=['timestamp'], keep='last')
DropDuplicatesKeepLast(rows) ==
    LET keep(i) == \A j \in (i + 1)..Len(rows) :
                       rows[j].timestamp # rows[i].timestamp
        RECURSIVE build(_)
        build(i) == IF i > Len(rows) THEN <<>>
                    ELSE IF keep(i) THEN <<rows[i]>> \o build(i + 1)
                    ELSE build(i + 1)
    IN  build(1)

\* insert a row into a sequence sorted by timestamp, after its equals
RECURSIVE InsertSorted(_, _)
InsertSorted(r, s) ==
    IF s = <<>> THEN <<r>>
    ELSE IF TsLess(r.timestamp, Head(s).timestamp) THEN <<r>> \o s
    ELSE <<Head(s)>> \o InsertSorted(r, Tail(s))

\* DataFrame.sort_values('timestamp')
RECURSIVE SortValues(_)
SortValues(rows) ==
    IF rows = <<>> THEN <<>>
    ELSE InsertSorted(rows[Len(rows)], SortValues(SubSeq(rows, 1, Len(rows) - 1)))

StrictlyIncreasing(rows) ==
    \A i \in 1..(Len(rows) - 1) : TsLess(rows[i].timestamp, rows[i + 1].timestamp)

MinTimestamp(rows) ==
    CHOOSE t \in Timestamps(rows) : \A u \in Timestamps(rows) : TsLeq(t, u)

MaxTimestamp(rows) ==
    CHOOSE t \in Timestamps(rows) : \A u \in Timestamps(rows) : TsLeq(u, t)

(***************************************************************************)
(* Provider payloads                                                       *)
(***************************************************************************)
\* A field of a candle object: a value int()/float() accepts, or one that is
\* missing or that they reject.
Num(n) == [ok |-> TRUE, v |-> n]

Unparsable == [ok |-> FALSE, v |-> 0]

\* A candle object {T, o, h, l, c, v} whose prices all derive from px.
Candle(t, px) ==
    [dict |-> TRUE, T |-> [ok |-> TRUE, v |-> t], o |-> Num(px),
     h |-> Num(px + 1), l |-> Num(px), c |-> Num(px), v |-> Num(px)]

\* The same candle with an open price float() rejects.
BadOpenCandle(t, px) == [Candle(t, px) EXCEPT !.o = Unparsable]

\* A list element that is no dict.
NonDictCandle(t, px) == [Candle(t, px) EXCEPT !.dict = FALSE]

\* the body of the try block at lines 296-318 raises
ConversionRaises(candle) ==
    candle.dict /\ ~(candle.T.ok /\ candle.o.ok /\ candle.h.ok /\ candle.l.ok
                     /\ candle.c.ok /\ candle.v.ok)

WellFormed(candle) == candle.dict /\ ~ConversionRaises(candle)

\* pd.to_datetime(int(candle['T']), unit='ms') and float() of the prices
ConvertCandle(candle, asset) ==
    [timestamp |-> candle.T.v, open |-> candle.o.v, high |-> candle.h.v,
     low |-> candle.l.v, close |-> candle.c.v, volume |-> candle.v.v,
     asset |-> asset, hl_symbol |-> get_hyperliquid_symbol(asset)]

\* A bug: the first candle that raises ends the conversion of the batch.
RECURSIVE ConvertCandlesAbortOnError(_, _)
ConvertCandlesAbortOnError(candles, asset) ==
    IF candles = <<>> THEN <<>>
    ELSE IF ConversionRaises(Head(candles)) THEN <<>>
    ELSE IF Head(candles).dict
         THEN <<ConvertCandle(Head(candles), asset)>>
              \o ConvertCandlesAbortOnError(Tail(candles), asset)
    ELSE ConvertCandlesAbortOnError(Tail(candles), asset)

\* df_data of fetch_candle_data: the loop over candles with its try/except
RECURSIVE ConvertCandles(_, _)
ConvertCandles(candles, asset) ==
    IF candles = <<>> THEN <<>>
    ELSE IF ConversionRaises(Head(candles))
         THEN ConvertCandles(Tail(candles), asset)
    ELSE IF Head(candles).dict
         THEN <<ConvertCandle(Head(candles), asset)>>
              \o ConvertCandles(Tail(candles), asset)
    ELSE ConvertCandles(Tail(candles), asset)

\* A bug: the batch is sorted and left with its repeated timestamps.
BatchFromCandlesKeepingDuplicates(candles, asset) ==
    IF candles = <<>> THEN None
    ELSE LET df_data == ConvertCandles(candles, asset)
         IN  IF df_data = <<>> THEN None
             ELSE Some(SortValues(df_data))

\* fetch_candle_data from "if not candles" to "return df"
BatchFromCandles(candles, asset) ==
    IF candles = <<>> THEN None
    ELSE LET df_data == ConvertCandles(candles, asset)
         IN  IF df_data = <<>> THEN None
             ELSE Some(SortValues(DropDuplicatesKeepLast(df_data)))

(***************************************************************************)
(* Stored files                                                            *)
(***************************************************************************)
\* load_existing_data: None when the file is missing or cannot be read
load_existing_data(file) ==
    IF file.st = "ok" THEN Some(file.rows) ELSE None

\* to_csv after the strftime of the timestamp column
WriteCsv(rows) ==
    FileOf([i \in 1..Len(rows) |->
              [rows[i] EXCEPT !.timestamp = FormatTimestamp(@)]])

\* A bug: the replace flag is ignored.
MergeIgnoringReplace(file, new_rows, replace_existing) ==
    LET existing_data == load_existing_data(file)
    IN  IF ~existing_data.none
        THEN WriteCsv(SortValues(DropDuplicatesKeepLast(
                          existing_data.rows \o new_rows)))
        ELSE WriteCsv(new_rows)

\* merge_and_save_data: the file it writes
merge_and_save_data(file, new_rows, replace_existing) ==
    IF replace_existing THEN WriteCsv(new_rows)
    ELSE LET existing_data == load_existing_data(file)
         IN  IF ~existing_data.none
             THEN WriteCsv(SortValues(DropDuplicatesKeepLast(
                               existing_data.rows \o new_rows)))
             ELSE WriteCsv(new_rows)

\* A bug: the span threshold is applied to the lookback only.
RebuildIgnoringSpan(file, clock) ==
    LET existing_data == load_existing_data(file)
    IN  IF existing_data.none \/ Len(existing_data.rows) = 0 THEN TRUE
        ELSE TimedeltaDays(clock, MinTimestamp(existing_data.rows))
                 < MinLookbackDays

\* should_rebuild_data
should_rebuild_data(file, clock) ==
    LET existing_data == load_existing_data(file)
    IN  IF existing_data.none \/ Len(existing_data.rows) = 0 THEN TRUE
        ELSE LET min_date == MinTimestamp(existing_data.rows)
                 max_date == MaxTimestamp(existing_data.rows)
                 date_range == TimedeltaDays(max_date, min_date)
                 days_from_today == TimedeltaDays(clock, min_date)
             IN  IF date_range < MinSpanDays THEN TRUE
                 ELSE IF days_from_today < MinLookbackDays THEN TRUE
                 ELSE FALSE

\* is_symbol_available
is_symbol_available(asset) ==
    IF available_symbols.none THEN TRUE
    ELSE get_hyperliquid_symbol(asset) \in available_symbols.syms

(***************************************************************************)
(* The environment of a run: clock, catalog and candles                    *)
(***************************************************************************)
\* The clock when the model starts: day 400 of the model's epoch.
Now0 == Ts(400 * SecPerDay, 250)

\* datetime.now() moves on between two runs: half an hour (the schedule),
\* or some sixty days (the puller was not run).
ClockAdvances == {30 * 60, 60 * SecPerDay}

\* Close instants of 30-minute candles: the provider's T ends in 999 ms.
TA == Ts(36 * SecPerDay + 1799, 999)
TB == Ts(399 * SecPerDay + 1799, 999)
TC == Ts(400 * SecPerDay + 1799, 999)

\* What the provider may return: candles at TA, TB and TC, a candle at TB
\* with an open price that does not parse, and an element that is no dict.
CandleUniverse ==
    {Candle(TA, 1), Candle(TB, 1), BadOpenCandle(TB, 5), Candle(TC, 1),
     NonDictCandle(TC, 7)}

\* The candles of the universe that close inside the requested window.
InWindow(lo, hi) ==
    {k \in CandleUniverse : TsLeq(lo, k.T.v) /\ TsLeq(k.T.v, hi)}

SeqsUpTo(S, n) == UNION {[1..m -> S] : m \in 0..n}

\* The candles the provider holds for a coin: kPEPE was listed late and
\* its candles are all well-formed.
CoinCandles(coin) ==
    IF coin = "kPEPE" THEN {Candle(TB, 1), Candle(TC, 1)} ELSE CandleUniverse

\* The successful answers to a candleSnapshot request for coin and [lo, hi].
Responses(coin, lo, hi) ==
    SeqsUpTo(InWindow(lo, hi) \cap CoinCandles(coin), MaxResp)

\* The universe lists a meta call may return.
MetaUniverses == {{"BTC", "kPEPE"}, {"BTC"}}

(***************************************************************************)
(* The run: HyperliquidOHLCPuller() then update_all_assets()               *)
(***************************************************************************)
\* Nothing logged by verify_data_integrity.
NoReport == [kind |-> "none", candles |-> 0, gaps |-> 0]

VerifyIdle == report = [a \in AssetSet |-> NoReport]

DailyIdle ==
    /\ GITHUB_EVENT_NAME = "" /\ FULL_HISTORICAL = "" /\ daily_start = Ts(0, 0)

HarnessIdle ==
    /\ mfile = NoFile /\ mbatch = <<>> /\ mflag = FALSE /\ mvariant = "none"
    /\ mfirst = NoFile /\ mprev = NoFile /\ mpc = 0 /\ mtally = "none"
    /\ cfile = NoFile /\ cres = FALSE /\ cdone = FALSE
    /\ VerifyIdle
    /\ DailyIdle

RunIdleAt(clock) ==
    /\ files = [a \in AssetSet |-> NoFile]
    /\ available_symbols = NoSymbols
    /\ now = clock
    /\ pc = "idle"
    /\ idx = 1
    /\ runs = 0
    /\ success_count = 0 /\ fail_count = 0 /\ rebuild_count = 0
    /\ tally = [a \in AssetSet |-> "none"]
    /\ force_full_history = FALSE
    /\ start_time = Now0 /\ end_time = Now0 /\ current_start = Now0
    /\ all_candles = <<>>
    /\ windows = <<>>
    /\ chunk_failed = FALSE
    /\ new_data = None
    /\ accesses = [a \in AssetSet |-> <<>>]
    /\ outstanding = <<>>
    /\ ever_incremental = {}

RunIdle == RunIdleAt(Now0)

Init == RunIdle /\ HarnessIdle

\* The set a successful meta call leaves in available_symbols.
SymbolsFromMeta(universe) == [none |-> FALSE, syms |-> universe]

\* get_available_symbols when meta() raises or has no 'universe'
SymbolsAfterMetaFailure == [none |-> FALSE, syms |-> {}]

\* __init__ with get_available_symbols, then the start of update_all_assets
StartRun ==
    /\ pc = "idle"
    /\ runs < MaxRuns
    /\ runs' = runs + 1
    /\ \E d \in ClockAdvances : now' = [now EXCEPT !.sec = @ + d]
    /\ \/ \E u \in MetaUniverses : available_symbols' = SymbolsFromMeta(u)
       \/ available_symbols' = SymbolsAfterMetaFailure
    /\ pc' = "asset"
    /\ UNCHANGED <<idx, success_count, fail_count, rebuild_count, tally>>
    /\ UNCHANGED <<files, force_full_history, start_time, end_time,
                   current_start, all_candles, windows, chunk_failed,
                   new_data, accesses, outstanding>>
    /\ UNCHANGED <<mergeVars, classVars, verifyVars, dailyVars, ever_incremental>>

\* A bug: the first failure ends the loop over the assets.
CountFailedEndsRun ==
    /\ fail_count' = fail_count + 1
    /\ tally' = [tally EXCEPT ![ASSETS[idx]] = "failed"]
    /\ idx' = Len(ASSETS) + 1
    /\ pc' = "asset"
    /\ UNCHANGED success_count

\* update_all_assets counts ASSETS[idx] as failed and moves to the next
CountFailed ==
    /\ fail_count' = fail_count + 1
    /\ tally' = [tally EXCEPT ![ASSETS[idx]] = "failed"]
    /\ idx' = idx + 1
    /\ pc' = "asset"
    /\ UNCHANGED success_count

\* A bug: an asset without a batch has its file rewritten without rows.
AssetFailedEmptiesFile ==
    /\ CountFailed
    /\ files' = [files EXCEPT ![ASSETS[idx]] = FileOf(<<>>)]

\* update_single_asset returns False for ASSETS[idx]; the loop moves on
AssetFailed == CountFailed /\ UNCHANGED files

\* A bug: a range of exactly the threshold is chunked too.
UseChunksFromThreshold(force, from, to) ==
    force \/ TimedeltaDays(to, from) >= ChunkThresholdDays

\* fetch_candle_data chooses chunked requests
UseChunks(force, from, to) ==
    force \/ TimedeltaDays(to, from) > ChunkThresholdDays

\* A bug: the incremental fetch starts a day before the latest stored row.
FetchStartDayBefore(file, clock, should_rebuild) ==
    IF should_rebuild THEN AddDays(clock, -HISTORICAL_DAYS)
    ELSE AddDays(MaxTimestamp(load_existing_data(file).rows), -1)

\* The start_time fetch_candle_data works with: now - HISTORICAL_DAYS for a
\* rebuild, else the latest timestamp of the stored file.
FetchStart(file, clock, should_rebuild) ==
    IF should_rebuild THEN AddDays(clock, -HISTORICAL_DAYS)
    ELSE MaxTimestamp(load_existing_data(file).rows)

\* The read load_existing_data makes of the file: read_csv if it exists.
ReadsOf(file) == IF file.st = "missing" THEN <<>> ELSE <<"read">>

\* The reads of the asset's file before the fetch: should_rebuild_data in
\* update_all_assets, then, for an available symbol, should_rebuild_data in
\* update_single_asset and load_existing_data in the incremental branch.
ReadsBeforeFetch(file, available, should_rebuild) ==
    ReadsOf(file)
    \o (IF available THEN ReadsOf(file) ELSE <<>>)
    \o (IF available /\ ~should_rebuild THEN ReadsOf(file) ELSE <<>>)

\* A bug: the file is read back after it has been written.
SaveAccessesReadBack(file, replace_existing) ==
    (IF replace_existing THEN <<>> ELSE ReadsOf(file)) \o <<"write", "read">>

\* The accesses of merge_and_save_data: load_existing_data unless
\* replace_existing, then to_csv.
SaveAccesses(file, replace_existing) ==
    (IF replace_existing THEN <<>> ELSE ReadsOf(file)) \o <<"write">>

\* The loop body of update_all_assets up to the first provider request:
\* should_rebuild_data, is_symbol_available, the choice of start_time.
BeginAsset ==
    /\ pc = "asset"
    /\ idx <= Len(ASSETS)
    /\ LET asset == ASSETS[idx]
           should_rebuild == should_rebuild_data(files[asset], now)
           from == FetchStart(files[asset], now, should_rebuild)
       IN  /\ rebuild_count' = rebuild_count + (IF should_rebuild THEN 1 ELSE 0)
           /\ all_candles' = <<>>
           /\ windows' = <<>>
           /\ chunk_failed' = FALSE
           /\ new_data' = None
           /\ ever_incremental' = IF should_rebuild THEN ever_incremental
                                   ELSE ever_incremental \cup {asset}
           /\ accesses' = [accesses EXCEPT ![asset] =
                  ReadsBeforeFetch(files[asset], is_symbol_available(asset),
                                   should_rebuild)]
           /\ IF ~is_symbol_available(asset)
              THEN /\ AssetFailed
                   /\ UNCHANGED <<force_full_history, start_time, end_time,
                                  current_start>>
              ELSE /\ force_full_history' = should_rebuild
                   /\ start_time' = from
                   /\ end_time' = now
                   /\ current_start' = from
                   /\ pc' = IF UseChunks(should_rebuild, from, now)
                            THEN "chunk" ELSE "single"
                   /\ UNCHANGED <<files, success_count, fail_count, tally, idx>>
    /\ UNCHANGED <<available_symbols, now, runs, outstanding>>
    /\ UNCHANGED <<mergeVars, classVars, verifyVars, dailyVars>>

\* A bug: the last window is not cut at the end of the range.
ChunkEndNoClamp(from, to) == AddDays(from, chunk_days)

\* The end of the chunk window that starts at from.
ChunkEnd(from, to) == TsMin(AddDays(from, chunk_days), to)

\* The coin update_single_asset is fetching.
CurrentCoin == get_hyperliquid_symbol(ASSETS[idx])

\* A bug: the loop goes on to the next chunk without waiting for the answer.
SendChunkNoWait ==
    /\ pc = "chunk"
    /\ TsLess(current_start, end_time)
    /\ LET current_end == ChunkEnd(current_start, end_time)
       IN  /\ windows' = Append(windows, <<current_start, current_end>>)
           /\ outstanding' = Append(outstanding, <<current_start, current_end>>)
           /\ current_start' = current_end
           /\ pc' = IF TsLess(current_end, end_time)
                    THEN "chunk" ELSE "chunk_wait"
    /\ UNCHANGED <<files, available_symbols, now, idx, runs, success_count,
                   fail_count, rebuild_count, tally, force_full_history,
                   start_time, end_time, new_data, accesses, all_candles,
                   chunk_failed>>
    /\ UNCHANGED <<mergeVars, classVars, verifyVars, dailyVars, ever_incremental>>

\* The while loop posts the candleSnapshot request of the next chunk:
\* requests.post blocks until the answer.
SendChunk ==
    /\ pc = "chunk"
    /\ TsLess(current_start, end_time)
    /\ LET current_end == ChunkEnd(current_start, end_time)
       IN  /\ windows' = Append(windows, <<current_start, current_end>>)
           /\ outstanding' = Append(outstanding, <<current_start, current_end>>)
    /\ pc' = "chunk_wait"
    /\ UNCHANGED <<files, available_symbols, now, idx, runs, success_count,
                   fail_count, rebuild_count, tally, force_full_history,
                   start_time, end_time, new_data, accesses, all_candles,
                   current_start, chunk_failed>>
    /\ UNCHANGED <<mergeVars, classVars, verifyVars, dailyVars, ever_incremental>>

\* The answer to the chunk request, and the rest of the loop body.
ReceiveChunk ==
    /\ pc = "chunk_wait"
    /\ outstanding # <<>>
    /\ LET w == Head(outstanding)
       IN  /\ outstanding' = Tail(outstanding)
           /\ \/ /\ chunk_failed' = TRUE          \* None: break
                 /\ pc' = "convert"
                 /\ UNCHANGED <<all_candles, current_start>>
              \/ \E chunk_candles \in Responses(CurrentCoin, w[1], w[2]) :
                     /\ all_candles' = all_candles \o chunk_candles
                     /\ current_start' = w[2]
                     /\ pc' = IF TsLess(w[2], end_time)
                              THEN "chunk" ELSE "convert"
                     /\ UNCHANGED chunk_failed
    /\ UNCHANGED <<files, available_symbols, now, idx, runs, success_count,
                   fail_count, rebuild_count, tally, force_full_history,
                   start_time, end_time, new_data, accesses, windows>>
    /\ UNCHANGED <<mergeVars, classVars, verifyVars, dailyVars, ever_incremental>>

\* One pass of the while loop: a chunk request and its answer.
FetchChunk == SendChunk \/ ReceiveChunk

\* The single request of a short range is posted.
SendSingle ==
    /\ pc = "single"
    /\ windows' = Append(windows, <<start_time, end_time>>)
    /\ outstanding' = Append(outstanding, <<start_time, end_time>>)
    /\ pc' = "single_wait"
    /\ UNCHANGED <<files, available_symbols, now, idx, runs, success_count,
                   fail_count, rebuild_count, tally, force_full_history,
                   start_time, end_time, new_data, accesses, all_candles,
                   current_start, chunk_failed>>
    /\ UNCHANGED <<mergeVars, classVars, verifyVars, dailyVars, ever_incremental>>

\* The answer to the single request.
ReceiveSingle ==
    /\ pc = "single_wait"
    /\ outstanding # <<>>
    /\ LET w == Head(outstanding)
       IN  /\ outstanding' = Tail(outstanding)
           /\ \/ /\ chunk_failed' = TRUE              \* None: return None
                 /\ AssetFailed
                 /\ UNCHANGED all_candles
              \/ \E candles \in Responses(CurrentCoin, w[1], w[2]) :
                     /\ all_candles' = candles
                     /\ pc' = "convert"
                     /\ UNCHANGED <<chunk_failed, files, success_count,
                                    fail_count, tally, idx>>
    /\ UNCHANGED <<available_symbols, now, runs, rebuild_count,
                   force_full_history, start_time, end_time, current_start,
                   new_data, accesses, windows>>
    /\ UNCHANGED <<mergeVars, classVars, verifyVars, dailyVars, ever_incremental>>

\* The single request of a short range and its answer.
FetchSingle == SendSingle \/ ReceiveSingle

\* A file of zero bytes: it exists and read_csv raises on it.
EmptiedFile == [st |-> "unreadable", rows |-> <<>>]

\* What a to_csv that raises can leave of a file it writes in place: the old
\* file (the failure came before the open), a file of zero bytes (the open
\* truncated it), or the first rows of what it was writing.
WriteFailureOutcomes(old, written) ==
    {old, EmptiedFile}
    \cup {FileOf(SubSeq(written.rows, 1, k)) : k \in 1..(Len(written.rows) - 1)}

\* The rest of fetch_candle_data and of update_single_asset: conversion,
\* then merge_and_save_data, then the tally.
Finish ==
    /\ pc = "convert"
    /\ LET asset == ASSETS[idx]
           df == BatchFromCandles(all_candles, asset)
           written == merge_and_save_data(files[asset], df.rows,
                                          force_full_history)
       IN  /\ new_data' = df
           /\ accesses' = [accesses EXCEPT ![asset] =
                  IF df.none THEN @
                  ELSE @ \o SaveAccesses(files[asset], force_full_history)]
           /\ IF df.none
              THEN AssetFailed
              ELSE \/ /\ files' = [files EXCEPT ![asset] = written]
                      /\ success_count' = success_count + 1
                      /\ tally' = [tally EXCEPT ![asset] = "success"]
                      /\ idx' = idx + 1
                      /\ pc' = "asset"
                      /\ UNCHANGED fail_count
                   \* to_csv raises: merge_and_save_data returns False
                   \/ /\ \E left \in WriteFailureOutcomes(files[asset], written) :
                             files' = [files EXCEPT ![asset] = left]
                      /\ CountFailed
    /\ UNCHANGED <<available_symbols, now, runs, rebuild_count,
                   force_full_history, start_time, end_time, current_start,
                   all_candles, windows, chunk_failed, outstanding>>
    /\ UNCHANGED <<mergeVars, classVars, verifyVars, dailyVars, ever_incremental>>

\* update_all_assets returns after the last asset
EndRun ==
    /\ pc = "asset"
    /\ idx > Len(ASSETS)
    /\ pc' = "idle"
    \* the locals of the last fetch go out of scope
    /\ force_full_history' = FALSE
    /\ start_time' = Now0 /\ end_time' = Now0 /\ current_start' = Now0
    /\ all_candles' = <<>>
    /\ windows' = <<>>
    /\ chunk_failed' = FALSE
    /\ new_data' = None
    \* and so do the puller object and the counters of the run
    /\ available_symbols' = NoSymbols
    /\ idx' = 1
    /\ success_count' = 0 /\ fail_count' = 0 /\ rebuild_count' = 0
    /\ tally' = [a \in AssetSet |-> "none"]
    /\ accesses' = [a \in AssetSet |-> <<>>]
    /\ UNCHANGED <<files, now, runs, outstanding>>
    /\ UNCHANGED <<mergeVars, classVars, verifyVars, dailyVars, ever_incremental>>

Next == StartRun \/ BeginAsset \/ FetchChunk \/ FetchSingle \/ Finish \/ EndRun

Spec == Init /\ [][Next]_vars

(***************************************************************************)
(* The daily puller's processing and save (pull_daily_ohlc.py)             *)
(***************************************************************************)
\* One row of process_ohlc_data's frame for a candle whose fields parse:
\* pd.to_datetime(unit='ms') keeps the millisecond, to_csv writes it and
\* pd.to_datetime reads it back.
DailyRow(candle, asset) ==
    [timestamp |-> candle.T.v, open |-> candle.o.v, high |-> candle.h.v,
     low |-> candle.l.v, close |-> candle.c.v, volume |-> candle.v.v,
     asset |-> asset]

\* process_ohlc_data for candles whose fields all parse: rename, convert,
\* sort_values('timestamp'); no drop_duplicates.
process_ohlc_data(raw_data, asset) ==
    SortValues([i \in 1..Len(raw_data) |-> DailyRow(raw_data[i], asset)])

\* A bug: an existing file is merged into whatever full_historical says.
SaveAssetDataAlwaysMerging(file, df, full_historical) ==
    IF df = <<>> THEN file
    ELSE IF file.st # "missing"
         THEN IF file.st = "unreadable" THEN file
              ELSE FileOf(SortValues(DropDuplicatesKeepLast(file.rows \o df)))
    ELSE FileOf(df)

\* save_asset_data: the file it leaves
save_asset_data(file, df, full_historical) ==
    IF df = <<>> THEN file
    ELSE IF file.st # "missing" /\ ~full_historical
         THEN IF file.st = "unreadable" THEN file     \* read_csv raises
              ELSE FileOf(SortValues(DropDuplicatesKeepLast(file.rows \o df)))
    ELSE FileOf(df)

(***************************************************************************)
(* Merge harness: a stored series, a fetched batch, the save applied twice *)
(***************************************************************************)
MaxBatch == 2

\* An instant on a whole second, for candles whose T has no milliseconds.
TD == Ts(399 * SecPerDay + 3600, 0)

\* The candles the harness draws stored series and batches from: every
\* instant with two versions of its prices.
MergeUniverse ==
    {Candle(TA, 1), Candle(TB, 1), Candle(TB, 3), Candle(TD, 1), Candle(TD, 3)}

RawBatches == SeqsUpTo(MergeUniverse, MaxBatch) \ {<<>>}

\* The batches fetch_candle_data can return.
PullerBatches == {BatchFromCandles(cs, "BTC").rows : cs \in RawBatches}

\* The frames process_ohlc_data can return.
DailyBatches == {process_ohlc_data(cs, "BTC") : cs \in RawBatches}

\* The files a first save leaves, and no file.
PullerFiles == {NoFile} \cup {WriteCsv(b) : b \in PullerBatches}

DailyFiles ==
    {NoFile} \cup {save_asset_data(NoFile, b, FALSE) : b \in DailyBatches}

\* The save of the script under test.
SaveOf(variant, file, batch, flag) ==
    IF variant = "puller" THEN merge_and_save_data(file, batch, flag)
    ELSE save_asset_data(file, batch, flag)

MergeInit ==
    /\ RunIdle
    /\ cfile = NoFile /\ cres = FALSE /\ cdone = FALSE
    /\ VerifyIdle
    /\ DailyIdle
    /\ mvariant \in {"puller", "daily"}
    /\ mfile \in (IF mvariant = "puller" THEN PullerFiles ELSE DailyFiles)
    /\ mbatch \in (IF mvariant = "puller" THEN PullerBatches ELSE DailyBatches)
    /\ mflag \in BOOLEAN
    /\ mfirst = NoFile /\ mprev = NoFile
    /\ mpc = 0
    /\ mtally = "none"

\* What the run counts the asset as once its save has returned.  The puller
\* counts merge_and_save_data's return value; the daily script's
\* save_asset_data returns nothing and run() appends the asset to
\* successful_assets after it.
TallyAfterSave(variant, saved) ==
    IF variant = "puller" THEN (IF saved THEN "success" ELSE "failed")
    ELSE "success"

\* The fetched batch is saved.
SaveFirst ==
    /\ mpc = 0
    /\ mprev' = mfile
    /\ mfile' = SaveOf(mvariant, mfile, mbatch, mflag)
    /\ mfirst' = mfile'
    /\ mpc' = 1
    /\ mtally' = TallyAfterSave(mvariant, TRUE)
    /\ UNCHANGED <<mbatch, mflag, mvariant>>
    /\ UNCHANGED <<runVars, classVars, verifyVars, dailyVars>>

\* The same batch is saved again.
SaveAgain ==
    /\ mpc = 1
    /\ mprev' = mfile
    /\ mfile' = SaveOf(mvariant, mfile, mbatch, mflag)
    /\ mpc' = 2
    /\ UNCHANGED <<mbatch, mflag, mvariant, mfirst, mtally>>
    /\ UNCHANGED <<runVars, classVars, verifyVars, dailyVars>>

\* The save of the fetched batch fails in to_csv; both scripts catch the
\* exception inside the save.
SaveFails ==
    /\ mpc = 0
    /\ mprev' = mfile
    /\ mfile' \in WriteFailureOutcomes(mfile,
                      SaveOf(mvariant, mfile, mbatch, mflag))
    /\ mpc' = -1
    /\ mtally' = TallyAfterSave(mvariant, FALSE)
    /\ UNCHANGED <<mbatch, mflag, mvariant, mfirst>>
    /\ UNCHANGED <<runVars, classVars, verifyVars, dailyVars>>

MergeNext == SaveFirst \/ SaveAgain \/ SaveFails

SpecMerge == MergeInit /\ [][MergeNext]_vars

\* The timestamp a row is persisted under by the script under test.
PersistedTimestamp(variant, t) ==
    IF variant = "puller" THEN FormatTimestamp(t) ELSE t

PersistedKeys(variant, rows) ==
    {PersistedTimestamp(variant, rows[i].timestamp) : i \in 1..Len(rows)}

\* The row as it stands in the file.
PersistedRow(variant, r) ==
    [r EXCEPT !.timestamp = PersistedTimestamp(variant, @)]

RowsOf(rows) == {rows[i] : i \in 1..Len(rows)}

\* C1: merging the same batch B into the stored series a second time,
\* without the replace flag, leaves exactly the series the first merge left.
MergeIdempotent == (mpc = 2 /\ ~mflag) => mfile = mfirst

\* C2: for a stored series A and a batch B, each with one row per timestamp
\* and sharing N timestamps, the merged series has |A|+|B|-N rows, holds B's
\* row for every shared timestamp, and holds every other row of A and of B.
DedupCorrect ==
    (/\ mpc = 1 /\ ~mflag /\ mprev.st = "ok"
     /\ Cardinality(Timestamps(mprev.rows)) = Len(mprev.rows)
     /\ Cardinality(PersistedKeys(mvariant, mbatch)) = Len(mbatch))
    => LET A == mprev.rows
           B == mbatch
           KA == Timestamps(A)
           KB == PersistedKeys(mvariant, B)
           N == Cardinality(KA \cap KB)
       IN  /\ Len(mfile.rows) = Len(A) + Len(B) - N
           /\ \A b \in RowsOf(B) : PersistedRow(mvariant, b) \in RowsOf(mfile.rows)
           /\ \A a \in RowsOf(A) :
                  a.timestamp \in KB \/ a \in RowsOf(mfile.rows)
           /\ \A a \in RowsOf(A) :
                  (a.timestamp \in KB /\ a \notin {PersistedRow(mvariant, b) : b \in RowsOf(B)})
                      => a \notin RowsOf(mfile.rows)

\* C11: when writing an asset's file fails, the asset is counted as failed
\* in the run's tally and the file persisted before the save is unchanged.
FailedSaveCountedAndHarmless ==
    (mpc < 0) => (mtally = "failed" /\ mfile = mprev)

\* C12: whatever failure an asset meets (unavailable symbol, failed or empty
\* fetch, nothing convertible, failed save), the assets counted so far are
\* exactly those before the loop position, each counted once as success or
\* as failed, and when the loop has passed the last asset every asset is
\* counted and success_count + fail_count is the number of assets.
FailureIsolation ==
    LET succeeded == {a \in AssetSet : tally[a] = "success"}
        failed == {a \in AssetSet : tally[a] = "failed"}
    IN  /\ succeeded \cup failed = {ASSETS[i] : i \in 1..(idx - 1)}
        /\ success_count = Cardinality(succeeded)
        /\ fail_count = Cardinality(failed)
        /\ (pc = "asset" /\ idx > Len(ASSETS))
              => /\ succeeded \cup failed = AssetSet
                 /\ success_count + fail_count = Len(ASSETS)

\* C12 witness: the end of a run whose first asset failed and whose second
\* asset was saved.
LaterAssetSavedAfterFailure ==
    /\ pc = "asset" /\ idx > Len(ASSETS)
    /\ tally[ASSETS[1]] = "failed"
    /\ tally[ASSETS[Len(ASSETS)]] = "success"

StrictlySequential ==
    /\ {a \in AssetSet : tally[a] # "none"} = {ASSETS[i] : i \in 1..(idx - 1)}
    /\ pc \in {"chunk", "chunk_wait", "single", "single_wait", "convert"}
          => (idx <= Len(ASSETS) /\ tally[ASSETS[idx]] = "none")
    /\ \A i \in 1..Len(windows) : \A j \in (i + 1)..Len(windows) :
           /\ TsLess(windows[i][1], windows[j][1])
           /\ TsLeq(windows[i][2], windows[j][1])
    /\ Len(outstanding) <= 1
    /\ outstanding # <<>>
          => /\ pc \in {"chunk_wait", "single_wait"}
             /\ outstanding[1] = windows[Len(windows)]

\* C14 witness: the second asset's fetch waits for the answer to its third
\* chunk request.
SecondAssetAwaitsThirdChunk ==
    /\ pc = "chunk_wait" /\ idx = Len(ASSETS)
    /\ Len(windows) = 3 /\ Len(outstanding) = 1
    /\ tally[ASSETS[1]] # "none"

\* C9: after a save with the replace flag the file holds exactly the rows of
\* the new batch, in the batch's order, under their persisted timestamps;
\* nothing else of the previous series is left.
ReplaceKeepsOnlyBatch ==
    (mpc >= 1 /\ mflag)
    => /\ mfile.st = "ok"
       /\ Len(mfile.rows) = Len(mbatch)
       /\ \A i \in 1..Len(mbatch) :
              mfile.rows[i] = PersistedRow(mvariant, mbatch[i])

\* C9 witness: a replace that discarded a stored row the batch does not have.
ReplaceDiscardedOldRow ==
    /\ mpc = 1 /\ mflag /\ mprev.st = "ok"
    /\ \E a \in RowsOf(mprev.rows) :
           a.timestamp \notin PersistedKeys(mvariant, mbatch)

(***************************************************************************)
(* Classifier harness: should_rebuild_data on a stored file                *)
(***************************************************************************)
\* How many seconds short of a whole number of days the harness goes.
MaxSlackSec == 1

\* The clock of the harness: day 1000.
ClassNow == Ts(1000 * SecPerDay, 250)

\* Spans and lookbacks around the two thresholds, in days.
ClassSpans == {0, 200, 249, 250, 251, 300}

ClassLookbacks == {299, 300, 301, 400}

\* A one-candle row at instant t.
RowAt(t) == ConvertCandle(Candle(t, 1), "BTC")

\* A stored file whose earliest row lies lookback days before ClassNow, less
\* s1 seconds, and whose latest row lies span days after it, less s2 seconds.
ClassFile(span, lookback, s1, s2) ==
    LET lo == Ts(ClassNow.sec - lookback * SecPerDay + s1, 0)
        hi == Ts(lo.sec + span * SecPerDay - s2, 0)
    IN  IF hi = lo THEN FileOf(<<RowAt(lo)>>)
        ELSE FileOf(<<RowAt(lo), RowAt(hi)>>)

ClassFiles ==
    {NoFile, [st |-> "unreadable", rows |-> <<>>], FileOf(<<>>)}
    \cup {ClassFile(sp, lb, s1, s2) :
            sp \in ClassSpans \ {0}, lb \in ClassLookbacks,
            s1 \in 0..MaxSlackSec, s2 \in 0..MaxSlackSec}
    \cup {ClassFile(0, lb, s1, 0) : lb \in ClassLookbacks, s1 \in 0..MaxSlackSec}

ClassInit ==
    /\ RunIdleAt(ClassNow)
    /\ mfile = NoFile /\ mbatch = <<>> /\ mflag = FALSE /\ mvariant = "none"
    /\ mfirst = NoFile /\ mprev = NoFile /\ mpc = 0 /\ mtally = "none"
    /\ cfile \in ClassFiles
    /\ cres = FALSE
    /\ cdone = FALSE
    /\ VerifyIdle
    /\ DailyIdle

Classify ==
    /\ ~cdone
    /\ cres' = should_rebuild_data(cfile, now)
    /\ cdone' = TRUE
    /\ UNCHANGED cfile
    /\ UNCHANGED <<runVars, mergeVars, verifyVars, dailyVars>>

ClassNext == Classify

SpecClassify == ClassInit /\ [][ClassNext]_vars

\* C4: should_rebuild_data answers rebuild exactly when there is no stored
\* series (missing, unreadable, empty), or the latest row lies less than 250
\* whole days after the earliest, or the clock lies less than 300 whole days
\* after the earliest row; span 200 / lookback 400 is rebuild, span 300 /
\* lookback 400 is incremental.
ClassifierThresholds ==
    cdone =>
      /\ cres <=>
           \/ cfile.st # "ok"
           \/ cfile.rows = <<>>
           \/ TsLess(MaxTimestamp(cfile.rows),
                     AddDays(MinTimestamp(cfile.rows), 250))
           \/ TsLess(now, AddDays(MinTimestamp(cfile.rows), 300))
      /\ cfile = ClassFile(200, 400, 0, 0) => cres
      /\ cfile = ClassFile(300, 400, 0, 0) => ~cres

\* C4 witness: span 300 days, lookback 400 days, classified incremental.
ClassifiedIncremental ==
    cdone /\ cfile = ClassFile(300, 400, 0, 0) /\ ~cres

(***************************************************************************)
(* Chunk harness: the while loop of fetch_candle_data on a range           *)
(***************************************************************************)
\* The longest range of the harness, in days.
MaxSpanDays == 370

HalfDay == 12 * 60 * 60

Day(n) == Ts(n * SecPerDay, 0)

ChunkStarts == {Day(0), Ts(35 * SecPerDay + 1799, 999)}

ChunkInit ==
    /\ HarnessIdle
    /\ files = [a \in AssetSet |-> NoFile]
    /\ available_symbols = SymbolsFromMeta({"BTC", "kPEPE"})
    /\ now = Now0
    /\ pc = "chunk"
    /\ idx = 1
    /\ runs = 1
    /\ success_count = 0 /\ fail_count = 0 /\ rebuild_count = 0
    /\ tally = [a \in AssetSet |-> "none"]
    /\ force_full_history \in BOOLEAN
    /\ start_time \in ChunkStarts
    /\ \E d \in 0..MaxSpanDays, h \in {0, HalfDay} :
           /\ d + h > 0
           /\ end_time = [start_time EXCEPT !.sec = @ + d * SecPerDay + h]
    /\ current_start = start_time
    /\ all_candles = <<>>
    /\ windows = <<>>
    /\ chunk_failed = FALSE
    /\ new_data = None
    /\ accesses = [a \in AssetSet |-> <<>>]
    /\ outstanding = <<>>
    /\ ever_incremental = {}

ChunkNext == FetchChunk

SpecChunk == ChunkInit /\ [][ChunkNext]_vars

\* C5: the windows the chunk loop requests are consecutive, each non-empty
\* and at most 45 days long, the first starts at start, none passes end, and
\* once the loop has ended without a failed request the last one ends at
\* end; Day 0 to Day 100 gives [0,45), [45,90), [90,100).
ChunkCoverage ==
    LET n == Len(windows)
    IN  /\ n >= 1 => windows[1][1] = start_time
        /\ \A i \in 1..n :
               /\ TsLess(windows[i][1], windows[i][2])
               /\ TsLeq(windows[i][2], AddDays(windows[i][1], 45))
               /\ TsLeq(windows[i][2], end_time)
        /\ \A i \in 1..(n - 1) : windows[i + 1][1] = windows[i][2]
        /\ (pc = "convert" /\ ~chunk_failed) =>
               (n >= 1 /\ windows[n][2] = end_time)
        /\ (pc = "convert" /\ ~chunk_failed /\ start_time = Day(0)
            /\ end_time = Day(100)) =>
               windows = << <<Day(0), Day(45)>>, <<Day(45), Day(90)>>,
                            <<Day(90), Day(100)>> >>

\* C5 witness: the loop has covered Day 0 to Day 100 in three windows.
ChunkedHundredDays ==
    /\ pc = "convert" /\ ~chunk_failed
    /\ start_time = Day(0) /\ end_time = Day(100)
    /\ Len(windows) = 3

(***************************************************************************)
(* Properties of the run                                                   *)
(***************************************************************************)
\* C3: every persisted series has strictly increasing timestamps, so no two
\* of its rows share a timestamp.
SortInvariant ==
    \A a \in AssetSet : files[a].st = "ok" => StrictlyIncreasing(files[a].rows)

\* C6: when a chunk request of an asset's chunked fetch has failed, the step
\* that ends the asset's fetch leaves its file as it was and counts the
\* asset as failed.
ChunkFailureDiscardsAll ==
    [][(pc = "convert" /\ chunk_failed)
         => (files' = files /\ tally'[ASSETS[idx]] = "failed")]_vars

\* C7: when every request of an asset's fetch was answered and no candle
\* came back, the asset is not counted as failed.
EmptyIsNotFailure ==
    [][(pc = "convert" /\ ~chunk_failed /\ all_candles = <<>>)
         => tally'[ASSETS[idx]] # "failed"]_vars

\* C8: when the catalog call failed or gave no usable universe, every asset
\* of the registry is treated as available during the run.
AvailabilityFailOpen ==
    (pc # "idle" /\ ~available_symbols.none /\ available_symbols.syms = {})
        => \A a \in AssetSet : is_symbol_available(a)

\* The asset whose processing has just ended.
LastAsset == ASSETS[idx - 1]

VA == Ts(399 * SecPerDay, 0)
VB == Ts(399 * SecPerDay + 30 * 60, 0)
VC == Ts(400 * SecPerDay, 0)

\* A readable file with rows and without the 'open' column.
MissingColumnsFile == [st |-> "nocols", rows |-> <<RowAt(VA)>>]

\* Persisted files of every kind: missing, unreadable, empty, without a
\* required column, and rows in any order, repeated, with and without gaps.
VerifyFiles ==
    {NoFile, EmptiedFile, FileOf(<<>>), MissingColumnsFile}
    \cup {FileOf(rs) :
            rs \in SeqsUpTo({RowAt(VA), RowAt(VB), RowAt(VC)}, MaxBatch) \ {<<>>}}

\* time_diffs[time_diffs > expected_diff * 1.5] over the sorted rows
GapCount(sorted) ==
    Cardinality({i \in 2..Len(sorted) :
        2 * (sorted[i].timestamp.sec - sorted[i - 1].timestamp.sec)
            > 3 * 30 * 60})

\* What verify_data_integrity logs for one file.
VerifyReport(file) ==
    IF file.st = "missing" THEN [NoReport EXCEPT !.kind = "not_found"]
    ELSE IF file.st = "unreadable" THEN [NoReport EXCEPT !.kind = "error"]
    ELSE IF file.rows = <<>> THEN [NoReport EXCEPT !.kind = "empty"]
    ELSE IF file.st = "nocols" THEN [NoReport EXCEPT !.kind = "missing_columns"]
    ELSE [kind |-> "verified", candles |-> Len(file.rows),
          gaps |-> GapCount(SortValues(file.rows))]

\* A bug: the verifier writes the sorted, deduplicated frame back.
FileRepairedByVerify(file) ==
    IF file.st = "ok" THEN FileOf(SortValues(DropDuplicatesKeepLast(file.rows)))
    ELSE file

\* The file verify_data_integrity leaves: df is a local frame, sorted in
\* memory, and nothing is written.
FileAfterVerify(file) == file

VerifyInit ==
    /\ HarnessIdle
    /\ files \in [AssetSet -> VerifyFiles]
    /\ available_symbols = NoSymbols
    /\ now = Now0
    /\ pc = "verify"
    /\ idx = 1
    /\ runs = 1
    /\ success_count = 0 /\ fail_count = 0 /\ rebuild_count = 0
    /\ tally = [a \in AssetSet |-> "none"]
    /\ force_full_history = FALSE
    /\ start_time = Now0 /\ end_time = Now0 /\ current_start = Now0
    /\ all_candles = <<>>
    /\ windows = <<>>
    /\ chunk_failed = FALSE
    /\ new_data = None
    /\ accesses = [a \in AssetSet |-> <<>>]
    /\ outstanding = <<>>
    /\ ever_incremental = {}

\* One pass of the for loop of verify_data_integrity
VerifyAsset ==
    /\ pc = "verify"
    /\ idx <= Len(ASSETS)
    /\ report' = [report EXCEPT ![ASSETS[idx]] = VerifyReport(files[ASSETS[idx]])]
    /\ files' = [files EXCEPT ![ASSETS[idx]] = FileAfterVerify(@)]
    /\ idx' = idx + 1
    /\ UNCHANGED <<available_symbols, now, pc, runs, success_count, fail_count,
                   rebuild_count, tally, force_full_history, start_time,
                   end_time, current_start, all_candles, windows, chunk_failed,
                   new_data, accesses, outstanding, ever_incremental>>
    /\ UNCHANGED <<mergeVars, classVars, dailyVars>>

VerifyNext == VerifyAsset

SpecVerify == VerifyInit /\ [][VerifyNext]_vars

\* C15: verify_data_integrity leaves every persisted file as it found it,
\* whatever the files are (valid, empty, without a column, unsorted, with
\* gaps, unreadable, missing); gaps are counted in the log and not repaired.
VerifierReadOnly == [][pc = "verify" => files' = files]_vars

\* C15 witness: the verifier has gone over an unsorted file with a gap, for
\* which it logged the gap, and over an unreadable file.
VerifiedUnsortedWithGap ==
    /\ pc = "verify" /\ idx > Len(ASSETS)
    /\ files[ASSETS[1]] = FileOf(<<RowAt(VC), RowAt(VA)>>)
    /\ report[ASSETS[1]].kind = "verified" /\ report[ASSETS[1]].gaps = 1
    /\ report[ASSETS[Len(ASSETS)]].kind = "error"

\* The positions of a fetch in progress.
Fetching == pc \in {"chunk", "chunk_wait", "single", "single_wait", "convert"}

\* C16: for an asset classified incremental-update the fetch starts at the
\* latest timestamp of the stored file, no request window starts before it,
\* and the save that follows merges: every stored row stays in the file
\* unless the batch has a row for its timestamp, and every row of the batch
\* is in the file.
IncrementalFromLatest ==
    [][/\ (Fetching /\ ~force_full_history)'
          => LET file == files'[ASSETS[idx']]
             IN  /\ file.st = "ok" /\ file.rows # <<>>
                 /\ start_time' = MaxTimestamp(file.rows)
                 /\ \A i \in 1..Len(windows') :
                        TsLeq(MaxTimestamp(file.rows), windows'[i][1])
       /\ (pc = "convert" /\ ~force_full_history
           /\ tally'[ASSETS[idx]] = "success")
          => LET old == files[ASSETS[idx]].rows
                 saved == files'[ASSETS[idx]].rows
             IN  /\ \A r \in RowsOf(old) :
                        r \in RowsOf(saved)
                        \/ r.timestamp \in Timestamps(new_data'.rows)
                 /\ \A b \in RowsOf(new_data'.rows) :
                        PersistedRow("puller", b) \in RowsOf(saved)
      ]_vars

\* C16 witness: an incremental update has fetched a candle newer than the
\* stored rows and merged it into the file.
IncrementalMerged ==
    /\ pc = "asset" /\ idx > 1
    /\ ~force_full_history /\ tally[LastAsset] = "success"
    /\ Len(windows) = 1 /\ windows[1][1] = start_time
    /\ Len(files[LastAsset].rows) >= 2
    /\ \E i \in 1..Len(files[LastAsset].rows) :
           TsLess(start_time, files[LastAsset].rows[i].timestamp)

\* The whole-second timestamps of the well-formed candles of an answer.
ReturnedTimestamps(candles) ==
    {FormatTimestamp(candles[i].T.v) :
        i \in {j \in 1..Len(candles) : WellFormed(candles[j])}}

\* C17: a run that finds no stored file for an available asset fetches it
\* as a full rebuild over [now - HISTORICAL_DAYS, now] in chunk requests;
\* when no chunk request failed the windows are consecutive from the start
\* to the end of that range; and the save that follows leaves a file with
\* exactly one row per timestamp of the returned well-formed candles, in
\* strictly increasing order.
FirstRunRebuildsInFull ==
    [][/\ (Fetching /\ files[ASSETS[idx]].st = "missing")'
          => /\ force_full_history'
             /\ start_time' = AddDays(now', -HISTORICAL_DAYS)
             /\ end_time' = now'
             /\ pc' \in {"chunk", "chunk_wait", "convert"}
             /\ \A i \in 1..Len(windows') :
                    windows'[i][1] = (IF i = 1 THEN start_time'
                                      ELSE windows'[i - 1][2])
             /\ (pc' = "convert" /\ ~chunk_failed')
                    => windows'[Len(windows')][2] = end_time'
       /\ (pc = "convert" /\ files[ASSETS[idx]].st = "missing"
           /\ ~chunk_failed /\ tally'[ASSETS[idx]] = "success")
          => LET saved == files'[ASSETS[idx]]
             IN  /\ saved.st = "ok"
                 /\ Timestamps(saved.rows) = ReturnedTimestamps(all_candles)
                 /\ Len(saved.rows) = Cardinality(ReturnedTimestamps(all_candles))
                 /\ StrictlyIncreasing(saved.rows)
      ]_vars

\* C17 witness: the first run has saved a rebuild of nine chunk requests
\* whose answers held more candles than the file has rows.
FirstRunSaved ==
    /\ pc = "asset" /\ idx > 1 /\ runs = 1
    /\ force_full_history /\ ~chunk_failed /\ tally[LastAsset] = "success"
    /\ Len(windows) = 9
    /\ files[LastAsset].st = "ok"
    /\ Len(files[LastAsset].rows) >= 2
    /\ Len(all_candles) > Len(files[LastAsset].rows)

\* C18: a series file comes into existence only in the save step of a fetch
\* that returned a batch of at least one candle for that asset, and a file
\* that exists still exists, readable and with rows, after every step.
SeriesLifecycle ==
    [][\A a \in AssetSet :
          /\ (files[a].st = "missing" /\ files'[a].st # "missing")
             => /\ pc = "convert" /\ a = ASSETS[idx]
                /\ ~new_data'.none /\ Len(new_data'.rows) >= 1
          /\ files[a].st # "missing"
             => (files'[a].st = "ok" /\ files'[a].rows # <<>>)
      ]_vars

(***************************************************************************)
(* Daily harness: one asset of pull_daily_ohlc.py's run() under the        *)
(* environment variables of the workflow                                   *)
(***************************************************************************)
\* timedelta(days=730) of calculate_time_range
DailyHistoryDays == 730

\* int(os.getenv('DAYS_BACK', '1')) with DAYS_BACK unset
days_back == 1

\* str.lower() on the values FULL_HISTORICAL takes here
Lower(text) == IF text \in {"true", "True", "TRUE"} THEN "true" ELSE text

\* self.full_historical as __init__ computes it
full_historical(event_name, flag) ==
    event_name = "workflow_dispatch" /\ Lower(flag) = "true"

\* calculate_time_range: the start of the requested range
calculate_time_range(file, full, clock) ==
    IF full \/ file.st = "missing" THEN AddDays(clock, -DailyHistoryDays)
    ELSE IF file.st = "ok" /\ file.rows # <<>>
         THEN AddDays(file.rows[Len(file.rows)].timestamp, 1)
    ELSE AddDays(clock, -days_back)

DailyInit ==
    /\ RunIdle
    /\ cfile = NoFile /\ cres = FALSE /\ cdone = FALSE
    /\ VerifyIdle
    /\ GITHUB_EVENT_NAME \in {"workflow_dispatch", "schedule"}
    /\ FULL_HISTORICAL \in {"true", "True", "false", ""}
    /\ daily_start = Ts(0, 0)
    /\ mvariant = "daily"
    /\ mfile \in DailyFiles \cup {EmptiedFile, FileOf(<<>>)}
    /\ mbatch \in DailyBatches
    /\ mflag = full_historical(GITHUB_EVENT_NAME, FULL_HISTORICAL)
    /\ mfirst = NoFile /\ mprev = NoFile
    /\ mpc = 0
    /\ mtally = "none"

\* The loop body of run() for one asset: calculate_time_range,
\* get_historical_ohlc, then process_ohlc_data and save_asset_data, or
\* nothing saved when the provider returned no data.
DailyPull ==
    /\ mpc = 0
    /\ daily_start' = calculate_time_range(mfile, mflag, now)
    /\ mprev' = mfile
    /\ mpc' = 1
    /\ \/ /\ mfile' = save_asset_data(mfile, mbatch, mflag)
          /\ mtally' = "success"
       \/ /\ mfile' = mfile                    \* raw_data is empty
          /\ mtally' = "failed"
    /\ UNCHANGED <<mbatch, mflag, mvariant, mfirst, GITHUB_EVENT_NAME,
                   FULL_HISTORICAL>>
    /\ UNCHANGED <<runVars, classVars, verifyVars>>

DailyNext == DailyPull

SpecDaily == DailyInit /\ [][DailyNext]_vars

\* C19 as stated: whenever FULL_HISTORICAL is true the asset is requested
\* from the start of the full historical window and the fetched batch
\* replaces its file, whatever the file was.
FullHistoricalForcesBackfill ==
    (mpc = 1 /\ mtally = "success" /\ Lower(FULL_HISTORICAL) = "true")
    => /\ daily_start = AddDays(now, -DailyHistoryDays)
       /\ mfile = FileOf(mbatch)

\* C19 amended: whenever FULL_HISTORICAL is true and the run was started by
\* a workflow_dispatch event, the asset is requested from the start of the
\* full historical window and the fetched batch replaces its file, whatever
\* the file was.
DispatchedFullHistoricalForcesBackfill ==
    (/\ mpc = 1 /\ mtally = "success"
     /\ Lower(FULL_HISTORICAL) = "true"
     /\ GITHUB_EVENT_NAME = "workflow_dispatch")
    => /\ daily_start = AddDays(now, -DailyHistoryDays)
       /\ mfile = FileOf(mbatch)

\* C19 witness: a dispatched full-historical pull has replaced a stored file
\* that held a row the batch does not have.
FullHistoricalReplacedFile ==
    /\ mpc = 1 /\ mtally = "success"
    /\ FULL_HISTORICAL = "True" /\ GITHUB_EVENT_NAME = "workflow_dispatch"
    /\ mprev.st = "ok"
    /\ \E r \in RowsOf(mprev.rows) : r \notin RowsOf(mfile.rows)

(***************************************************************************)
(* Fetch harness: fetch_candle_data from the choice between chunked and    *)
(* single requests, for ranges on both sides of the threshold              *)
(***************************************************************************)
\* Whole days of the ranges an incremental fetch is started with.
DecisionSpans == {0, 1, 45, 49, 50, 51, 52, 100}

FetchInit ==
    /\ HarnessIdle
    /\ files = [a \in AssetSet |-> NoFile]
    /\ available_symbols = SymbolsFromMeta({"BTC", "kPEPE"})
    /\ now = Now0
    /\ pc = "fetch"
    /\ idx = 1
    /\ runs = 1
    /\ success_count = 0 /\ fail_count = 0 /\ rebuild_count = 0
    /\ tally = [a \in AssetSet |-> "none"]
    /\ end_time = now
    /\ \/ /\ force_full_history = TRUE
          /\ start_time = AddDays(now, -HISTORICAL_DAYS)
       \/ /\ force_full_history = FALSE
          /\ \E d \in DecisionSpans, h \in {1, HalfDay, SecPerDay - 1} :
                 start_time = Ts(now.sec - d * SecPerDay - h, 0)
    /\ current_start = start_time
    /\ all_candles = <<>>
    /\ windows = <<>>
    /\ chunk_failed = FALSE
    /\ new_data = None
    /\ accesses = [a \in AssetSet |-> <<>>]
    /\ outstanding = <<>>
    /\ ever_incremental = {}

\* The if of line 238
ChooseRequests ==
    /\ pc = "fetch"
    /\ pc' = IF UseChunks(force_full_history, start_time, end_time)
             THEN "chunk" ELSE "single"
    /\ UNCHANGED <<files, available_symbols, now, idx, runs, success_count,
                   fail_count, rebuild_count, tally, force_full_history,
                   start_time, end_time, current_start, all_candles, windows,
                   chunk_failed, new_data, accesses, outstanding>>
    /\ UNCHANGED <<mergeVars, classVars, verifyVars, dailyVars, ever_incremental>>

FetchNext == ChooseRequests \/ FetchChunk \/ FetchSingle

SpecFetch == FetchInit /\ [][FetchNext]_vars

\* The requests a fetch issues when chunked says whether its range is to be
\* split: chunk requests of at most chunk_days, else the one request
\* [start_time, end_time].
RequestsFollow(chunked) ==
    /\ pc \in {"chunk", "chunk_wait"} => chunked
    /\ pc \in {"single", "single_wait"} => ~chunked
    /\ (chunked /\ pc # "fetch")
          => /\ windows # <<>> \/ pc = "chunk"
             /\ \A i \in 1..Len(windows) :
                    TsLeq(windows[i][2], AddDays(windows[i][1], chunk_days))
    /\ (~chunked /\ pc \notin {"fetch", "single"})
          => windows = <<<<start_time, end_time>>>>

\* C20 as stated: the range is split into 45-day chunk requests exactly when
\* a full rebuild was requested or end - start exceeds 50 days; otherwise
\* exactly one request covers the range; no request spans more than 50 days.
ChunkedBeyondFiftyDays ==
    /\ RequestsFollow(force_full_history
           \/ TsLess(AddDays(start_time, ChunkThresholdDays), end_time))
    /\ \A i \in 1..Len(windows) :
           TsLeq(windows[i][2], AddDays(windows[i][1], ChunkThresholdDays))

\* C20 amended: the range is split into 45-day chunk requests exactly when a
\* full rebuild was requested or end - start is at least 51 days (its count
\* of whole days exceeds 50); otherwise exactly one request covers the range;
\* every request spans less than 51 days.
ChunkedBeyondFiftyWholeDays ==
    /\ RequestsFollow(force_full_history
           \/ TsLeq(AddDays(start_time, ChunkThresholdDays + 1), end_time))
    /\ \A i \in 1..Len(windows) :
           TsLess(windows[i][2], AddDays(windows[i][1], ChunkThresholdDays + 1))

\* C20 witness: a range of fifty days and some hours was fetched with one
\* request, and so spans more than fifty days.
SingleRequestOverFiftyDays ==
    /\ pc = "convert" /\ ~force_full_history
    /\ windows = <<<<start_time, end_time>>>>
    /\ TsLess(AddDays(start_time, ChunkThresholdDays), end_time)

\* C21: when fetch_candle_data returns None for an asset (symbol not
\* available, failed single request, no candle, no valid candle), the step
\* that ends the asset writes nothing: every file is the same after it as
\* before, the asset's accesses hold no write, and the asset is counted as
\* failed.
NoBatchNoWrite ==
    [][(idx' = idx + 1 /\ new_data'.none)
       => /\ files' = files
          /\ tally'[ASSETS[idx]] = "failed"
          /\ \A i \in 1..Len(accesses'[ASSETS[idx]]) :
                 accesses'[ASSETS[idx]][i] # "write"
      ]_vars

\* C21 witness: an asset with a stored file has ended without a batch, its
\* answer holding candles of which none is valid.
NoValidCandleForStoredAsset ==
    /\ pc = "asset" /\ idx > 1
    /\ new_data.none /\ tally[LastAsset] = "failed"
    /\ all_candles # <<>>
    /\ files[LastAsset].st = "ok" /\ files[LastAsset].rows # <<>>

(***************************************************************************)
(* Runs over a history that an earlier full rebuild has stored             *)
(***************************************************************************)
\* The files a full rebuild of BTC leaves when the provider returned the
\* candle at TA and later ones: merge_and_save_data with replace_existing.
StoredHistories ==
    {merge_and_save_data(NoFile, BatchFromCandles(cs, "BTC").rows, TRUE) :
        cs \in {<<Candle(TA, 1), Candle(TB, 1)>>,
                <<Candle(TA, 1), Candle(TB, 1), Candle(TC, 1)>>}}

\* The state before a run when BTC.csv holds such a history.
StoredInit ==
    /\ HarnessIdle
    /\ \E stored \in StoredHistories :
           files = [a \in AssetSet |-> IF a = "BTC" THEN stored ELSE NoFile]
    /\ available_symbols = NoSymbols
    /\ now = Now0
    /\ pc = "idle"
    /\ idx = 1
    /\ runs = 0
    /\ success_count = 0 /\ fail_count = 0 /\ rebuild_count = 0
    /\ tally = [a \in AssetSet |-> "none"]
    /\ force_full_history = FALSE
    /\ start_time = Now0 /\ end_time = Now0 /\ current_start = Now0
    /\ all_candles = <<>>
    /\ windows = <<>>
    /\ chunk_failed = FALSE
    /\ new_data = None
    /\ accesses = [a \in AssetSet |-> <<>>]
    /\ outstanding = <<>>
    /\ ever_incremental = {}

SpecStored == StoredInit /\ [][Next]_vars

\* C22: an asset that some run has classified incremental-update is
\* classified incremental-update by every later run, and is never again
\* fetched as a full rebuild whose batch replaces its file.
IncrementalIsStable ==
    /\ (pc = "asset" /\ idx <= Len(ASSETS) /\ ASSETS[idx] \in ever_incremental)
          => ~should_rebuild_data(files[ASSETS[idx]], now)
    /\ (Fetching /\ ASSETS[idx] \in ever_incremental) => ~force_full_history
====
